---- MODULE Spec2Model ----
(***************************************************************************)
(* The activity store of good-life: the DatabaseService class wrapping one *)
(* SQLite table `activities`, its initialization state machine and its     *)
(* seven data operations.                                                  *)
(*                                                                         *)
(* Strings are sequences of character codes, compared the way SQLite's     *)
(* BINARY collation and JavaScript's default sort compare them.  The tag   *)
(* column holds the JSON text JSON.stringify produces, and every read      *)
(* decodes it again with JSON.parse.                                       *)
(*                                                                         *)
(* Around the store: App, whose effect initializes it and which renders    *)
(* the screens afterwards; the save handlers of the add and detail         *)
(* screens; the activity list screen with its search box; and the variant  *)
(* of the service with fallbacks for the legacy driver.                    *)
(***************************************************************************)
EXTENDS Naturals, Integers, Sequences, FiniteSets, TLC

VARIABLES db, isInitialized, pc, schema, table, inflight,
          lastOp, lastResult, lastArg, app, listScreen

vars == <<db, isInitialized, pc, schema, table, inflight,
          lastOp, lastResult, lastArg, app, listScreen>>

\* the operation of the last step, with its arguments and its result
last == [op |-> lastOp, arg |-> lastArg, result |-> lastResult]

----------------------------------------------------------------------------
(* Bounds of the model *)

\* clock readings (milliseconds) an operation can take are 1..MaxTime
MaxTime == 2

Times == 1..MaxTime

----------------------------------------------------------------------------
(* Strings *)

\* character codes of the JSON syntax
LBracket == 91
RBracket == 93
Comma == 44
Quote == 34
Backslash == 92

\* "a", "b", "c": tags
TagA == <<97>>
TagB == <<98>>
TagC == <<99>>
\* "h", "g": handles
HandleH == <<104>>
HandleG == <<103>>
\* committed_on values, shortened to "11" and "12" (two days of one month),
\* and their common prefix "1"
Jan01 == <<49, 49>>
Jan02 == <<49, 50>>
Jan == <<49>>

\* a < b in code-unit order: a is a proper prefix of b, or the first
\* position where they differ holds the smaller code in a
StrLess(a, b) ==
    \E i \in 1..Len(b) :
        /\ \A j \in 1..(i - 1) : j <= Len(a) /\ a[j] = b[j]
        /\ (i > Len(a) \/ a[i] < b[i])

StrLeq(a, b) == a = b \/ StrLess(a, b)

----------------------------------------------------------------------------
(* Inputs *)

\* the caller-supplied fields of an activity
Fields == {"handle", "committed_on", "tags"}

\* new activities a caller adds: the two of the tag-aggregation example, on
\* different days under different handles
NewActivities ==
    { [handle |-> HandleH, committed_on |-> Jan01, tags |-> <<TagB, TagA>>],
      [handle |-> HandleG, committed_on |-> Jan02, tags |-> <<TagC, TagB, TagC>>] }

\* Partial<NewActivity>: no field, one field, or all three (the detail screen
\* always sends all three)
PartialActivities ==
    { <<>>,
      [tags |-> <<>>],
      [handle |-> HandleH, committed_on |-> Jan01, tags |-> <<TagB, TagA>>] }

\* (startDate, endDate) pairs: one day, an inverted range, a month prefix as
\* lower bound, and a range that ends before every stored day
DateRanges ==
    { <<Jan01, Jan01>>, <<Jan02, Jan01>>, <<Jan, Jan02>>, <<Jan, Jan>> }

\* suffixes Math.random().toString(36).substr(2, 9) can produce
RandomSuffixes == {<<107>>}

----------------------------------------------------------------------------
(* JSON.stringify and JSON.parse on arrays of strings *)

RECURSIVE EscapeString(_)
\* the body of a JSON string literal: '"' and '\' are escaped with '\'
EscapeString(s) ==
    IF s = <<>> THEN <<>>
    ELSE (IF Head(s) \in {Quote, Backslash}
          THEN <<Backslash, Head(s)>>
          ELSE <<Head(s)>>) \o EscapeString(Tail(s))

QuoteString(s) == <<Quote>> \o EscapeString(s) \o <<Quote>>

RECURSIVE Distinct(_)
\* tags without the repeated occurrences
Distinct(tags) ==
    IF tags = <<>> THEN <<>>
    ELSE LET front == Distinct(SubSeq(tags, 1, Len(tags) - 1))
             t == tags[Len(tags)]
         IN  IF \E i \in 1..Len(front) : front[i] = t THEN front
             ELSE Append(front, t)

RECURSIVE JoinComma(_)
JoinComma(tags) ==
    IF tags = <<>> THEN <<>>
    ELSE IF Len(tags) = 1 THEN QuoteString(tags[1])
    ELSE QuoteString(tags[1]) \o <<Comma>> \o JoinComma(Tail(tags))

\* a serialization that writes each tag once, as for a Set of tags
JSONstringify_Distinct(tags) ==
    <<LBracket>> \o JoinComma(Distinct(tags)) \o <<RBracket>>

\* JSON.stringify(tags) for an array of strings
JSONstringify(tags) == <<LBracket>> \o JoinComma(tags) \o <<RBracket>>

SyntaxError == [ok |-> FALSE, value |-> <<>>, next |-> 0]

RECURSIVE ScanString(_, _, _)
\* reads a string literal whose opening quote is at position i - 1
ScanString(text, i, acc) ==
    IF i > Len(text) THEN SyntaxError
    ELSE IF text[i] = Quote THEN [ok |-> TRUE, value |-> acc, next |-> i + 1]
    ELSE IF text[i] = Backslash
         THEN IF i + 1 <= Len(text) /\ text[i + 1] \in {Quote, Backslash}
              THEN ScanString(text, i + 2, Append(acc, text[i + 1]))
              ELSE SyntaxError
    ELSE ScanString(text, i + 1, Append(acc, text[i]))

RECURSIVE ParseElements(_, _, _)
\* reads the elements of a non-empty array from position i to the closing ']'
ParseElements(text, i, acc) ==
    IF i > Len(text) \/ text[i] # Quote THEN SyntaxError
    ELSE LET s == ScanString(text, i + 1, <<>>) IN
         IF ~s.ok THEN SyntaxError
         ELSE IF s.next < Len(text) /\ text[s.next] = Comma
              THEN ParseElements(text, s.next + 1, Append(acc, s.value))
         ELSE IF s.next = Len(text) /\ text[s.next] = RBracket
              THEN [ok |-> TRUE, value |-> Append(acc, s.value), next |-> s.next + 1]
         ELSE SyntaxError

\* a decoder that yields the empty array for a text it cannot parse
JSONparse_DefaultsToEmpty(text) ==
    LET parsed == IF Len(text) < 2 \/ text[1] # LBracket THEN SyntaxError
                  ELSE ParseElements(text, 2, <<>>)
    IN  IF parsed.ok THEN parsed ELSE [ok |-> TRUE, value |-> <<>>, next |-> 3]

\* JSON.parse(text) where an array of strings is expected: ok = FALSE is the
\* SyntaxError it throws
JSONparse(text) ==
    IF Len(text) < 2 \/ text[1] # LBracket THEN SyntaxError
    ELSE IF text = <<LBracket, RBracket>>
         THEN [ok |-> TRUE, value |-> <<>>, next |-> 3]
    ELSE ParseElements(text, 2, <<>>)

----------------------------------------------------------------------------
(* Clock and id generation *)

\* the decimal digits of n, for n < 100
NumToString(n) ==
    IF n < 10 THEN <<48 + n>> ELSE <<48 + (n \div 10), 48 + (n % 10)>>

\* Date.prototype.toISOString: a fixed-width, zero-padded rendering, so that
\* string order on the results is time order
ToISOString(t) == <<48 + (t \div 10), 48 + (t % 10)>>

\* Date.now().toString() + Math.random().toString(36).substr(2, 9)
GenerateId(ms, suffix) == NumToString(ms) \o suffix

Ids == { GenerateId(ms, sfx) : ms \in Times, sfx \in RandomSuffixes }

----------------------------------------------------------------------------
(* The SQL statements, on a table that is a set of rows *)

\* ORDER BY committed_on DESC, created_at ASC
OrderBefore_CreatedAsc(r1, r2) ==
    \/ StrLess(r2.committed_on, r1.committed_on)
    \/ r1.committed_on = r2.committed_on /\ StrLess(r1.created_at, r2.created_at)

\* ORDER BY committed_on DESC, created_at DESC puts r1 strictly before r2
OrderBefore(r1, r2) ==
    \/ StrLess(r2.committed_on, r1.committed_on)
    \/ r1.committed_on = r2.committed_on /\ StrLess(r2.created_at, r1.created_at)

RECURSIVE OrderBy(_)
\* the orders in which the engine may return rows: a row that no other row
\* precedes comes first, so rows that agree on both sort keys come in an
\* order the statement does not determine
OrderBy(rows) ==
    IF rows = {} THEN {<<>>}
    ELSE UNION { { <<first>> \o rest : rest \in OrderBy(rows \ {first}) } :
                 first \in { r \in rows : \A q \in rows : ~OrderBefore(q, r) } }

\* WHERE committed_on >= ? AND committed_on < ?
InDateRange_EndExclusive(row, startDate, endDate) ==
    StrLeq(startDate, row.committed_on) /\ StrLess(row.committed_on, endDate)

\* WHERE committed_on >= ? AND committed_on <= ?
InDateRange(row, startDate, endDate) ==
    StrLeq(startDate, row.committed_on) /\ StrLeq(row.committed_on, endDate)

\* an INSERT into a table whose handle column is UNIQUE
SqlInsert_UniqueHandle(tbl, row) ==
    IF \E r \in tbl : r.id = row.id \/ r.handle = row.handle
    THEN [ok |-> FALSE, table |-> tbl, changes |-> 0]
    ELSE [ok |-> TRUE, table |-> tbl \cup {row}, changes |-> 1]

\* INSERT OR REPLACE INTO activities ...
SqlInsert_Replace(tbl, row) ==
    [ok |-> TRUE,
     table |-> { r \in tbl : r.id # row.id } \cup {row},
     changes |-> 1]

\* INSERT INTO activities ...: id is the PRIMARY KEY
SqlInsert(tbl, row) ==
    IF \E r \in tbl : r.id = row.id
    THEN [ok |-> FALSE, table |-> tbl, changes |-> 0]
    ELSE [ok |-> TRUE, table |-> tbl \cup {row}, changes |-> 1]

\* UPDATE activities SET ..., created_at = updated_at WHERE id = ?
SqlUpdate_SetsCreatedAt(tbl, a, tagsJson, id) ==
    [ok |-> TRUE,
     table |-> { IF r.id = id
                 THEN [r EXCEPT !.handle = a.handle,
                                !.committed_on = a.committed_on,
                                !.tags = tagsJson,
                                !.created_at = a.updated_at,
                                !.updated_at = a.updated_at]
                 ELSE r : r \in tbl },
     changes |-> Cardinality({ r \in tbl : r.id = id })]

\* UPDATE activities SET handle, committed_on, tags, updated_at WHERE id = ?
SqlUpdate(tbl, a, tagsJson, id) ==
    [ok |-> TRUE,
     table |-> { IF r.id = id
                 THEN [r EXCEPT !.handle = a.handle,
                                !.committed_on = a.committed_on,
                                !.tags = tagsJson,
                                !.updated_at = a.updated_at]
                 ELSE r : r \in tbl },
     changes |-> Cardinality({ r \in tbl : r.id = id })]

\* a DELETE without its WHERE clause
SqlDelete_NoWhere(tbl, id) ==
    [ok |-> TRUE,
     table |-> {},
     changes |-> Cardinality(tbl)]

\* DELETE FROM activities WHERE id = ?
SqlDelete(tbl, id) ==
    [ok |-> TRUE,
     table |-> { r \in tbl : r.id # id },
     changes |-> Cardinality({ r \in tbl : r.id = id })]

\* what the engine does with a statement: run it, or reject it (I/O error,
\* disk full)
EngineOutcomes == {"ok", "error"}

\* the outcomes of the SELECT and of the UPDATE of one updateActivity call: the
\* UPDATE is not issued when the SELECT is rejected
StatementOutcomes == {<<"ok", "ok">>, <<"ok", "error">>, <<"error", "ok">>}

\* the clock readings of one updateActivity call: the earliest reading (a
\* clock set back, before any created_at) and the latest; the reading of a
\* call whose statement is rejected is discarded, so one stands for all
NowReadings(engines) == IF engines = <<"ok", "ok">> THEN {1, MaxTime} ELSE {MaxTime}

----------------------------------------------------------------------------
(* Results of a call *)

Throw(e) == [kind |-> "throw", error |-> e]
Return(v) == [kind |-> "return", value |-> v]
ReturnNull == [kind |-> "null"]
\* the call is suspended at an await
Pending == [kind |-> "pending"]

NotInitialized == Throw("Database not initialized")
StorageFailure == Throw("StorageFailure")

\* ensureInitialized that looks at the handle only
EnsureInitialized_HandleOnly(initialized, handle) == handle # "null"

\* ensureInitialized passes
EnsureInitialized(initialized, handle) == initialized /\ handle # "null"

Ready == EnsureInitialized(isInitialized, db)

\* the object a read builds from a row and its decoded tags
RowToActivity(row, tags) ==
    [id |-> row.id, handle |-> row.handle, committed_on |-> row.committed_on,
     tags |-> tags,
     created_at |-> row.created_at, updated_at |-> row.updated_at]

\* result.map(row => ({..., tags: JSON.parse(row.tags), ...})): one row that
\* does not parse makes the whole call throw
MapRows(rows) ==
    LET parsed == [i \in 1..Len(rows) |-> JSONparse(rows[i].tags)] IN
    IF \E i \in 1..Len(rows) : ~parsed[i].ok
    THEN Throw("SyntaxError")
    ELSE Return([i \in 1..Len(rows) |-> RowToActivity(rows[i], parsed[i].value)])

----------------------------------------------------------------------------
(* The data operations, as functions of the table and of their inputs *)

\* an addActivity that catches the rejection of its INSERT and returns the
\* activity
AddActivity_MasksFailure(tbl, activity, ms, now, suffix, engine) ==
    LET id == GenerateId(ms, suffix)
        stamp == ToISOString(now)
        row == [id |-> id, handle |-> activity.handle,
                committed_on |-> activity.committed_on,
                tags |-> JSONstringify(activity.tags),
                created_at |-> stamp, updated_at |-> stamp]
        ins == SqlInsert(tbl, row)
    IN  [result |-> Return([row EXCEPT !.tags = activity.tags]),
         table |-> IF engine = "error" \/ ~ins.ok THEN tbl ELSE ins.table]

\* addActivity: ms and now are the two clock readings, suffix the random part
\* of the id
AddActivity(tbl, activity, ms, now, suffix, engine) ==
    LET id == GenerateId(ms, suffix)
        stamp == ToISOString(now)
        tagsJson == JSONstringify(activity.tags)
        ins == SqlInsert(tbl, [id |-> id, handle |-> activity.handle,
                               committed_on |-> activity.committed_on,
                               tags |-> tagsJson,
                               created_at |-> stamp, updated_at |-> stamp])
    IN  IF engine = "error" THEN [result |-> StorageFailure, table |-> tbl]
        ELSE IF ~ins.ok
             THEN [result |-> Throw("SQLITE_CONSTRAINT"), table |-> tbl]
        ELSE [result |-> Return([id |-> id, handle |-> activity.handle,
                                 committed_on |-> activity.committed_on,
                                 tags |-> activity.tags,
                                 created_at |-> stamp, updated_at |-> stamp]),
              table |-> ins.table]

\* getActivities, for one order in which the engine returns the rows
GetActivities(rows, engine) ==
    IF engine = "error" THEN StorageFailure ELSE MapRows(rows)

\* getActivitiesByDateRange, for one order of the selected rows
GetActivitiesByDateRange(rows, engine) ==
    IF engine = "error" THEN StorageFailure ELSE MapRows(rows)

\* getActivityById with a catch that returns null
GetActivityById_Swallow(tbl, id, engine) ==
    LET found == { r \in tbl : r.id = id } IN
    IF engine = "error" \/ found = {} THEN ReturnNull
    ELSE LET row == CHOOSE r \in found : TRUE
             parsed == JSONparse(row.tags)
         IN  IF ~parsed.ok THEN ReturnNull
             ELSE Return(RowToActivity(row, parsed.value))

\* getActivityById
GetActivityById(tbl, id, engine) ==
    LET found == { r \in tbl : r.id = id } IN
    IF engine = "error" THEN StorageFailure
    ELSE IF found = {} THEN ReturnNull
    ELSE LET row == CHOOSE r \in found : TRUE
             parsed == JSONparse(row.tags)
         IN  IF ~parsed.ok THEN Throw("SyntaxError")
             ELSE Return(RowToActivity(row, parsed.value))

\* { ...updates, ...existing }: the stored values win
Spread_Swapped(existing, updates) ==
    [k \in DOMAIN existing \cup DOMAIN updates |->
        IF k \in DOMAIN existing THEN existing[k] ELSE updates[k]]

\* { ...existing, ...updates }
Spread(existing, updates) ==
    [k \in DOMAIN existing \cup DOMAIN updates |->
        IF k \in DOMAIN updates THEN updates[k] ELSE existing[k]]

\* an updateActivity that inserts the row when id is not stored and updates
\* carries every field
UpdateActivity_Upsert(tbl, id, updates, now, readEngine, writeEngine) ==
    LET existing == GetActivityById(tbl, id, readEngine)
        stamp == ToISOString(now)
    IN  IF existing.kind = "throw" THEN [result |-> existing, table |-> tbl]
        ELSE IF existing.kind = "null" /\ DOMAIN updates # Fields
             THEN [result |-> existing, table |-> tbl]
        ELSE IF writeEngine = "error"
             THEN [result |-> StorageFailure, table |-> tbl]
        ELSE LET base == IF existing.kind = "null"
                         THEN [id |-> id, created_at |-> stamp]
                         ELSE existing.value
                 updated == [k \in {"id", "created_at", "updated_at"} \cup Fields |->
                               IF k = "updated_at" THEN stamp
                               ELSE IF k \in DOMAIN updates THEN updates[k]
                               ELSE base[k]]
                 row == [updated EXCEPT !.tags = JSONstringify(updated.tags)]
             IN  [result |-> Return(updated),
                  table |-> { r \in tbl : r.id # id } \cup {row}]

\* an updateActivity whose write merges updates into the row as it is stored
\* when the UPDATE runs
UpdateWrite_Rereads(tbl, id, existing, updates, now, writeEngine) ==
    LET current == GetActivityById(tbl, id, "ok")
        base == IF current.kind = "return" THEN current.value ELSE existing
        updated == [Spread(base, updates) EXCEPT !.updated_at = ToISOString(now)]
        upd == SqlUpdate(tbl, updated, JSONstringify(updated.tags), id)
    IN  IF writeEngine = "error"
        THEN [result |-> StorageFailure, table |-> tbl]
        ELSE [result |-> Return(updated), table |-> upd.table]

\* updateActivity after `if (!existing) return null`: the merge of the
\* activity it read, the UPDATE and the return
UpdateWrite(tbl, id, existing, updates, now, writeEngine) ==
    LET updated == [Spread(existing, updates)
                       EXCEPT !.updated_at = ToISOString(now)]
        tagsJson == JSONstringify(updated.tags)
        upd == SqlUpdate(tbl, updated, tagsJson, id)
    IN  IF writeEngine = "error"
        THEN [result |-> StorageFailure, table |-> tbl]
        ELSE [result |-> Return(updated), table |-> upd.table]

\* updateActivity: readEngine and writeEngine are the outcomes of its SELECT
\* and of its UPDATE
UpdateActivity(tbl, id, updates, now, readEngine, writeEngine) ==
    LET existing == GetActivityById(tbl, id, readEngine) IN
    IF existing.kind # "return" THEN [result |-> existing, table |-> tbl]
    ELSE UpdateWrite(tbl, id, existing.value, updates, now, writeEngine)

\* deleteActivity that returns result.changes >= 0
DeleteActivity_ChangesGeq0(tbl, id, engine) ==
    LET del == SqlDelete(tbl, id) IN
    IF engine = "error" THEN [result |-> StorageFailure, table |-> tbl]
    ELSE [result |-> Return(del.changes >= 0), table |-> del.table]

\* deleteActivity
DeleteActivity(tbl, id, engine) ==
    LET del == SqlDelete(tbl, id) IN
    IF engine = "error" THEN [result |-> StorageFailure, table |-> tbl]
    ELSE [result |-> Return(del.changes > 0), table |-> del.table]

RECURSIVE SortStrings_Descending(_)
\* a sort with the comparison reversed
SortStrings_Descending(S) ==
    IF S = {} THEN <<>>
    ELSE LET m == CHOOSE x \in S : \A y \in S : StrLeq(y, x)
         IN  <<m>> \o SortStrings_Descending(S \ {m})

RECURSIVE SortStrings(_)
\* Array.from(set).sort(): ascending code-unit order
SortStrings(S) ==
    IF S = {} THEN <<>>
    ELSE LET m == CHOOSE x \in S : \A y \in S : StrLeq(x, y)
         IN  <<m>> \o SortStrings(S \ {m})

\* getAllTags
GetAllTags(tbl, engine) ==
    LET texts == { r.tags : r \in tbl }      \* SELECT DISTINCT tags
        parsed == { JSONparse(t) : t \in texts }
        allTags == UNION { { p.value[i] : i \in 1..Len(p.value) } : p \in parsed }
    IN  IF engine = "error" THEN StorageFailure
        ELSE IF \E p \in parsed : ~p.ok THEN Throw("SyntaxError")
        ELSE Return(SortStrings(allTags))

----------------------------------------------------------------------------
(* State *)

\* the callers of the store: screens and effects of the app, each with at
\* most one call in flight
Callers == {1, 2}

\* the callers of initialize(); each call runs up to an await, and the rest
\* of the program runs in between
Tasks == {1}

\* no updateActivity call of the caller is between its SELECT and its UPDATE
Idle == [phase |-> "idle"]

SchemaObjects ==
    <<"activities", "idx_activities_committed_on", "idx_activities_handle">>

NoCall == [op |-> "none", arg |-> <<>>, result |-> ReturnNull]

\* App(): isDbInitialized and dbError as useState constructs them, and the
\* position of its effect initializeDatabase
AppMounted == [pc |-> "mount", isDbInitialized |-> FALSE, dbError |-> "null"]

\* ActivityListScreen(): activities, filteredActivities and searchText as
\* useState constructs them
ListScreenMounted ==
    [activities |-> <<>>, filteredActivities |-> <<>>, searchText |-> <<>>]

\* the step is a call of the store by a caller other than App and the
\* activity list screen, whose state it leaves alone
NoScreen == UNCHANGED <<app, listScreen>>

Init ==
    /\ db = "null"
    /\ isInitialized = FALSE
    /\ pc = [p \in Callers |-> "idle"]
    /\ schema = {}
    /\ table = {}
    /\ inflight = [c \in Callers |-> Idle]
    /\ lastOp = NoCall.op
    /\ lastResult = NoCall.result
    /\ lastArg = NoCall.arg
    /\ app = AppMounted
    /\ listScreen = ListScreenMounted

\* the operation of the last step: its arguments and its result when it
\* returned, its error when it threw
Call(op, arg, result) ==
    [op |-> op,
     arg |-> IF result.kind = "throw" THEN <<>> ELSE arg,
     result |-> result]

\* the step records the call
Record(op, arg, result) ==
    /\ lastOp' = op
    /\ lastResult' = result
    /\ lastArg' = Call(op, arg, result).arg

----------------------------------------------------------------------------
(* initialize() *)

\* a catch block that rethrows and keeps the handle
InitializeFails_KeepsHandle(p, error) ==
    /\ UNCHANGED db
    /\ isInitialized' = FALSE
    /\ pc' = [pc EXCEPT ![p] = "idle"]
    /\ Record("initialize", p, Throw(error))

\* the catch block of initialize: reset and rethrow
InitializeFails(p, error) ==
    /\ db' = "null"
    /\ isInitialized' = FALSE
    /\ pc' = [pc EXCEPT ![p] = "idle"]
    /\ Record("initialize", p, Throw(error))

\* an initialize without the early return
AlreadyInitialized_Never(initialized, handle) == FALSE

\* if (this.isInitialized && this.db) return
AlreadyInitialized(initialized, handle) == initialized /\ handle # "null"

\* the call up to `await SQLite.openDatabaseAsync(...)`
InitializeCall(p) ==
    /\ pc[p] = "idle"
    /\ UNCHANGED inflight
    /\ IF AlreadyInitialized(isInitialized, db)
       THEN /\ Record("initialize", p, Return("already initialized"))
            /\ UNCHANGED <<db, isInitialized, pc, schema, table>>
       ELSE /\ isInitialized' = FALSE
            /\ db' = "null"
            /\ pc' = [pc EXCEPT ![p] = "open"]
            /\ Record("initialize", p, Pending)
            /\ UNCHANGED <<schema, table>>

\* openDatabaseAsync settles; on success createTables issues its first
\* statement
OpenDone(p) ==
    /\ pc[p] = "open"
    /\ UNCHANGED inflight
    /\ \E engine \in EngineOutcomes :
         IF engine = "error"
         THEN InitializeFails(p, "StorageFailure") /\ UNCHANGED <<schema, table>>
         ELSE /\ db' = "open"
              /\ pc' = [pc EXCEPT ![p] = "exec1"]
              /\ Record("initialize", p, Pending)
              /\ UNCHANGED <<isInitialized, schema, table>>

\* the k-th execAsync of createTables settles; the next statement is issued
\* through this.db, and after the third the store is marked initialized
ExecDone(p, k) ==
    /\ pc[p] = <<"exec1", "exec2", "exec3">>[k]
    /\ UNCHANGED inflight
    /\ \E engine \in EngineOutcomes :
         IF engine = "error"
         THEN InitializeFails(p, "StorageFailure") /\ UNCHANGED <<schema, table>>
         ELSE /\ schema' = schema \cup {SchemaObjects[k]}
              /\ UNCHANGED table
              /\ IF k < 3
                 THEN IF db = "null"
                      THEN InitializeFails(p, "TypeError")
                      ELSE /\ pc' = [pc EXCEPT ![p] = <<"exec2", "exec3">>[k]]
                           /\ Record("initialize", p, Pending)
                           /\ UNCHANGED <<db, isInitialized>>
                 ELSE /\ isInitialized' = TRUE
                      /\ pc' = [pc EXCEPT ![p] = "idle"]
                      /\ Record("initialize", p, Return("initialized"))
                      /\ UNCHANGED db

----------------------------------------------------------------------------
(* The data operations: each is one call, from ensureInitialized to its    *)
(* return or throw                                                         *)

addActivity(activity) ==
    /\ \E ms \in Times, suffix \in RandomSuffixes, engine \in EngineOutcomes :
         \* Date.now() and new Date() are adjacent statements: both readings
         \* fall in the same millisecond
         LET r == AddActivity(table, activity, ms, ms, suffix, engine) IN
         IF ~Ready
         THEN Record("addActivity", activity, NotInitialized)
              /\ UNCHANGED table
         ELSE Record("addActivity", activity, r.result)
              /\ table' = r.table
    /\ UNCHANGED <<db, isInitialized, pc, schema, inflight>>

getActivities ==
    /\ \E rows \in OrderBy(table), engine \in EngineOutcomes :
         Record("getActivities", <<>>,
                      IF ~Ready THEN NotInitialized
                      ELSE GetActivities(rows, engine))
    /\ UNCHANGED <<db, isInitialized, pc, schema, table, inflight>>

getActivitiesByDateRange(startDate, endDate) ==
    /\ \E rows \in OrderBy({ r \in table : InDateRange(r, startDate, endDate) }),
          engine \in EngineOutcomes :
         Record("getActivitiesByDateRange", <<startDate, endDate>>,
                      IF ~Ready THEN NotInitialized
                      ELSE GetActivitiesByDateRange(rows, engine))
    /\ UNCHANGED <<db, isInitialized, pc, schema, table, inflight>>

getActivityById(id) ==
    /\ \E engine \in EngineOutcomes :
         Record("getActivityById", id,
                      IF ~Ready THEN NotInitialized
                      ELSE GetActivityById(table, id, engine))
    /\ UNCHANGED <<db, isInitialized, pc, schema, table, inflight>>

updateActivity(id, updates) ==
    /\ \E engines \in StatementOutcomes : \E now \in NowReadings(engines) :
         LET r == UpdateActivity(table, id, updates, now, engines[1], engines[2])
             arg == [id |-> id, updates |-> updates]
         IN  IF ~Ready
             THEN Record("updateActivity", arg, NotInitialized)
                  /\ UNCHANGED table
             ELSE Record("updateActivity", arg, r.result)
                  /\ table' = r.table
    /\ UNCHANGED <<db, isInitialized, pc, schema, inflight>>

deleteActivity(id) ==
    /\ \E engine \in EngineOutcomes :
         LET r == DeleteActivity(table, id, engine) IN
         IF ~Ready
         THEN Record("deleteActivity", id, NotInitialized)
              /\ UNCHANGED table
         ELSE Record("deleteActivity", id, r.result)
              /\ table' = r.table
    /\ UNCHANGED <<db, isInitialized, pc, schema, inflight>>

getAllTags ==
    /\ \E engine \in EngineOutcomes :
         Record("getAllTags", <<>>,
                      IF ~Ready THEN NotInitialized
                      ELSE GetAllTags(table, engine))
    /\ UNCHANGED <<db, isInitialized, pc, schema, table, inflight>>

----------------------------------------------------------------------------

Next ==
    \/ /\ NoScreen
       /\ \E p \in Tasks : InitializeCall(p)
    \/ /\ NoScreen
       /\ \E p \in Tasks : OpenDone(p)
    \/ /\ NoScreen
       /\ \E p \in Tasks, k \in 1..3 : ExecDone(p, k)
    \/ /\ NoScreen
       /\ \E activity \in NewActivities : addActivity(activity)
    \/ /\ NoScreen
       /\ getActivities
    \/ /\ NoScreen
       /\ \E range \in DateRanges : getActivitiesByDateRange(range[1], range[2])
    \/ /\ NoScreen
       /\ \E id \in Ids : getActivityById(id)
    \/ /\ NoScreen
       /\ \E id \in Ids, updates \in PartialActivities : updateActivity(id, updates)
    \/ /\ NoScreen
       /\ \E id \in Ids : deleteActivity(id)
    \/ /\ NoScreen
       /\ getAllTags

Spec == Init /\ [][Next]_vars

\* the partial updates two callers make of one activity, each of one field
RacingUpdates == { [tags |-> <<>>], [handle |-> HandleG] }

\* updateActivity up to `await this.getActivityById(id)` and its return of
\* null: the call of caller c reads the row
updateRead(c, id, updates) ==
    /\ inflight[c].phase # "write"
    /\ \E engine \in EngineOutcomes :
         LET existing == IF ~Ready THEN NotInitialized
                         ELSE GetActivityById(table, id, engine)
             arg == [id |-> id, updates |-> updates]
         IN  IF existing.kind = "return"
             THEN /\ inflight' = [inflight EXCEPT ![c] =
                                    [phase |-> "write", id |-> id,
                                     updates |-> updates,
                                     existing |-> existing.value]]
                  /\ Record("updateActivity", arg, Pending)
             ELSE /\ inflight' = [inflight EXCEPT ![c] = Idle]
                  /\ Record("updateActivity", arg, existing)
    /\ UNCHANGED <<db, isInitialized, pc, schema, table>>

\* the rest of the call of caller c: the merge, the UPDATE and the return
updateWrite(c) ==
    /\ inflight[c].phase = "write"
    /\ \E engine \in EngineOutcomes : \E now \in NowReadings(<<"ok", engine>>) :
         LET call == inflight[c]
             r == UpdateWrite(table, call.id, call.existing, call.updates,
                              now, engine)
         IN  /\ table' = r.table
             /\ Record("updateActivity",
                       [id |-> call.id, updates |-> call.updates], r.result)
             /\ inflight' = [inflight EXCEPT ![c] =
                               IF r.result.kind = "return"
                               THEN [phase |-> "returned", id |-> call.id,
                                     updates |-> call.updates]
                               ELSE Idle]
    /\ UNCHANGED <<db, isInitialized, pc, schema>>

\* two callers update and delete one activity; the calls of updateActivity
\* run up to their await, and the other caller's statements run in between.
\* The activity is added before the first update starts.
NextInterleaved ==
    \/ /\ NoScreen
       /\ \E p \in Tasks : InitializeCall(p)
    \/ /\ NoScreen
       /\ \E p \in Tasks : OpenDone(p)
    \/ /\ NoScreen
       /\ \E p \in Tasks, k \in 1..3 : ExecDone(p, k)
    \/ /\ NoScreen
       /\ table = {}
       /\ \A c \in Callers : inflight[c] = Idle
       /\ \E activity \in NewActivities : addActivity(activity)
    \/ /\ NoScreen
       /\ \E c \in Callers, id \in Ids, updates \in RacingUpdates :
             updateRead(c, id, updates)
    \/ /\ NoScreen
       /\ \E c \in Callers : updateWrite(c)
    \/ /\ NoScreen
       /\ \E id \in Ids : deleteActivity(id)

SpecInterleaved == Init /\ [][NextInterleaved]_vars

\* rows of a database file that exists when the app starts, written by
\* another program or an earlier version: one with well-formed tags, one
\* whose tags text breaks off inside a string, one whose tags text is empty
FoundRows ==
    { [id |-> <<55, 107>>, handle |-> HandleG, committed_on |-> Jan01,
       tags |-> JSONstringify(<<TagC>>),
       created_at |-> ToISOString(1), updated_at |-> ToISOString(1)],
      [id |-> <<56, 107>>, handle |-> HandleH, committed_on |-> Jan02,
       tags |-> <<LBracket, Quote, 97>>,
       created_at |-> ToISOString(1), updated_at |-> ToISOString(1)],
      [id |-> <<57, 107>>, handle |-> HandleH, committed_on |-> Jan02,
       tags |-> <<>>,
       created_at |-> ToISOString(2), updated_at |-> ToISOString(2)] }

\* the store is constructed over a database file that holds some of FoundRows
InitFound ==
    /\ db = "null"
    /\ isInitialized = FALSE
    /\ pc = [p \in Callers |-> "idle"]
    /\ schema = { SchemaObjects[k] : k \in 1..3 }
    /\ table \in SUBSET FoundRows
    /\ inflight = [c \in Callers |-> Idle]
    /\ lastOp = NoCall.op
    /\ lastResult = NoCall.result
    /\ lastArg = NoCall.arg
    /\ app = AppMounted
    /\ listScreen = ListScreenMounted

\* initialize and the four reads over the found file
NextFound ==
    \/ /\ NoScreen
       /\ \E p \in Tasks : InitializeCall(p)
    \/ /\ NoScreen
       /\ \E p \in Tasks : OpenDone(p)
    \/ /\ NoScreen
       /\ \E p \in Tasks, k \in 1..3 : ExecDone(p, k)
    \/ /\ NoScreen
       /\ getActivities
    \/ /\ NoScreen
       /\ \E range \in DateRanges : getActivitiesByDateRange(range[1], range[2])
    \/ /\ NoScreen
       /\ \E id \in Ids \cup { r.id : r \in FoundRows } : getActivityById(id)
    \/ /\ NoScreen
       /\ getAllTags

SpecFound == InitFound /\ [][NextFound]_vars

\* initialize() called by both callers: a call runs up to its next await and
\* the other caller's call runs in between
NextRace ==
    \/ /\ NoScreen
       /\ \E p \in Callers : InitializeCall(p)
    \/ /\ NoScreen
       /\ \E p \in Callers : OpenDone(p)
    \/ /\ NoScreen
       /\ \E p \in Callers, k \in 1..3 : ExecDone(p, k)
    \/ /\ NoScreen
       /\ getActivities

SpecRace == Init /\ [][NextRace]_vars

----------------------------------------------------------------------------
(* The variant of DatabaseService with fallbacks for the legacy driver *)

\* what the installed expo-sqlite offers: openDatabaseAsync, only the legacy
\* openDatabase, or neither
Drivers == {"openDatabaseAsync", "openDatabase", "none"}

\* initialize of the variant, up to its first await: the legacy openDatabase
\* returns its handle at once, and createTables, finding no execAsync on it,
\* issues CREATE TABLE in a transaction
LegacyInitialize(p, driver) ==
    /\ pc[p] = "idle"
    /\ UNCHANGED inflight
    /\ IF AlreadyInitialized(isInitialized, db)
       THEN /\ Record("initialize", p, Return("already initialized"))
            /\ UNCHANGED <<db, isInitialized, pc, schema, table>>
       ELSE IF driver = "openDatabaseAsync"
       THEN /\ isInitialized' = FALSE
            /\ db' = "null"
            /\ pc' = [pc EXCEPT ![p] = "open"]
            /\ Record("initialize", p, Pending)
            /\ UNCHANGED <<schema, table>>
       ELSE IF driver = "openDatabase"
       THEN /\ isInitialized' = FALSE
            /\ db' = "legacy"
            /\ pc' = [pc EXCEPT ![p] = "transaction"]
            /\ Record("initialize", p, Pending)
            /\ UNCHANGED <<schema, table>>
       ELSE /\ InitializeFails(p, "No suitable database opening method found")
            /\ UNCHANGED <<schema, table>>

\* the transaction of the legacy branch of createTables settles: the table
\* is created, createTables returns and initialize marks the store
\* initialized
LegacyCreateTablesDone(p) ==
    /\ pc[p] = "transaction"
    /\ UNCHANGED inflight
    /\ \E engine \in EngineOutcomes :
         IF engine = "error"
         THEN InitializeFails(p, "StorageFailure") /\ UNCHANGED <<schema, table>>
         ELSE /\ schema' = schema \cup {SchemaObjects[1]}
              /\ isInitialized' = TRUE
              /\ pc' = [pc EXCEPT ![p] = "idle"]
              /\ Record("initialize", p, Return("initialized"))
              /\ UNCHANGED <<db, table>>

\* the variant over any of the drivers, with three of its data operations,
\* whose statements are those of the primary version
NextLegacy ==
    \/ /\ NoScreen
       /\ \E p \in Tasks, driver \in Drivers : LegacyInitialize(p, driver)
    \/ /\ NoScreen
       /\ \E p \in Tasks : OpenDone(p)
    \/ /\ NoScreen
       /\ \E p \in Tasks, k \in 1..3 : ExecDone(p, k)
    \/ /\ NoScreen
       /\ \E p \in Tasks : LegacyCreateTablesDone(p)
    \/ /\ NoScreen
       /\ \E activity \in NewActivities : addActivity(activity)
    \/ /\ NoScreen
       /\ getActivities
    \/ /\ NoScreen
       /\ \E id \in Ids : deleteActivity(id)

SpecLegacy == Init /\ [][NextLegacy]_vars

----------------------------------------------------------------------------
(* The save handlers of the screens, and callers that pass the store what   *)
(* its types allow                                                         *)

Space == 32

\* String.prototype.trim, over texts whose only white space is the space
RECURSIVE TrimStart(_)
TrimStart(s) ==
    IF s # <<>> /\ Head(s) = Space THEN TrimStart(Tail(s)) ELSE s

RECURSIVE TrimEnd(_)
TrimEnd(s) ==
    IF s # <<>> /\ s[Len(s)] = Space THEN TrimEnd(SubSeq(s, 1, Len(s) - 1)) ELSE s

Trim(s) == TrimEnd(TrimStart(s))

\* what the user may have typed into the handle field
HandleTexts == {<<>>, <<Space>>, <<Space, 104, Space>>, HandleG}

\* the date field: empty, or a date
DateTexts == {<<>>, Jan01}

\* Alert.alert('Error', ...): the handler returns without a call of the store
Alert(screen, text) ==
    /\ Record(screen, text, [kind |-> "alert"])
    /\ UNCHANGED <<db, isInitialized, pc, schema, table, inflight>>

\* AddActivityScreen.handleSave
AddActivityScreenHandleSave(handle, committedOn, tags) ==
    IF Trim(handle) = <<>> THEN Alert("AddActivityScreen", handle)
    ELSE IF committedOn = <<>> THEN Alert("AddActivityScreen", handle)
    ELSE addActivity([handle |-> Trim(handle), committed_on |-> committedOn,
                      tags |-> tags])

\* ActivityDetailScreen.handleSave
ActivityDetailScreenHandleSave(activityId, editedHandle, editedCommittedOn, editedTags) ==
    IF Trim(editedHandle) = <<>> THEN Alert("ActivityDetailScreen", editedHandle)
    ELSE IF editedCommittedOn = <<>> THEN Alert("ActivityDetailScreen", editedHandle)
    ELSE updateActivity(activityId,
                        [handle |-> Trim(editedHandle),
                         committed_on |-> editedCommittedOn,
                         tags |-> editedTags])

\* a NewActivity and a Partial<NewActivity> with handle: '' : both are values
\* of the parameter types of addActivity and updateActivity
EmptyHandleActivities == {[handle |-> <<>>, committed_on |-> Jan02, tags |-> <<TagA>>]}

EmptyHandleUpdates == {[handle |-> <<>>]}

\* the screens, and a caller of the exported databaseService
NextCallers ==
    \/ /\ NoScreen
       /\ \E p \in Tasks : InitializeCall(p)
    \/ /\ NoScreen
       /\ \E p \in Tasks : OpenDone(p)
    \/ /\ NoScreen
       /\ \E p \in Tasks, k \in 1..3 : ExecDone(p, k)
    \/ /\ NoScreen
       /\ \E handle \in HandleTexts, committedOn \in DateTexts :
             AddActivityScreenHandleSave(handle, committedOn, <<TagB>>)
    \/ /\ NoScreen
       /\ \E id \in Ids, handle \in HandleTexts, committedOn \in DateTexts :
             ActivityDetailScreenHandleSave(id, handle, committedOn, <<>>)
    \/ /\ NoScreen
       /\ \E activity \in EmptyHandleActivities : addActivity(activity)
    \/ /\ NoScreen
       /\ \E id \in Ids, updates \in EmptyHandleUpdates : updateActivity(id, updates)
    \/ /\ NoScreen
       /\ \E id \in Ids : getActivityById(id)

SpecCallers == Init /\ [][NextCallers]_vars

----------------------------------------------------------------------------
(* App: the effect that initializes the store, and what it renders *)

\* testDatabase: ensureInitialized and one query, any failure caught
TestDatabase(engine) == Ready /\ engine = "ok"

\* an effect whose catch block goes on to testDatabase
AppAwait_IgnoresFailure(state, result) ==
    IF result.kind = "pending" THEN [state EXCEPT !.pc = "initialize"]
    ELSE [state EXCEPT !.pc = "testDatabase"]

\* `await databaseService.initialize()` in initializeDatabase: the effect
\* waits while the call is pending, goes on to testDatabase when it resolved,
\* and its catch block sets dbError when it rejected
AppAwait(state, result) ==
    IF result.kind = "pending" THEN [state EXCEPT !.pc = "initialize"]
    ELSE IF result.kind = "throw"
         THEN [state EXCEPT !.pc = "done", !.dbError = result.error]
    ELSE [state EXCEPT !.pc = "testDatabase"]

\* useEffect(() => { initializeDatabase() }, []) up to the first await
AppInitializeDatabase ==
    /\ app.pc = "mount"
    /\ InitializeCall(1)
    /\ app' = AppAwait(app, lastResult')
    /\ UNCHANGED listScreen

AppOpenDone ==
    /\ app.pc = "initialize"
    /\ OpenDone(1)
    /\ app' = AppAwait(app, lastResult')
    /\ UNCHANGED listScreen

AppExecDone(k) ==
    /\ app.pc = "initialize"
    /\ ExecDone(1, k)
    /\ app' = AppAwait(app, lastResult')
    /\ UNCHANGED listScreen

\* the rest of initializeDatabase: testDatabase, whose result is logged, and
\* setIsDbInitialized(true)
AppTestDatabase ==
    /\ app.pc = "testDatabase"
    /\ \E engine \in EngineOutcomes :
          Record("testDatabase", <<>>, Return(TestDatabase(engine)))
    /\ app' = [app EXCEPT !.pc = "done", !.isDbInitialized = TRUE]
    /\ UNCHANGED <<db, isInitialized, pc, schema, table, inflight, listScreen>>

\* App returns the navigation tree: not the error view, not the loading view
Rendered == app.dbError = "null" /\ app.isDbInitialized

----------------------------------------------------------------------------
(* ActivityListScreen *)

\* String.prototype.toLowerCase over ASCII
ToLowerCase_Identity(s) == s

ToLowerCase(s) ==
    [i \in 1..Len(s) |-> IF s[i] \in 65..90 THEN s[i] + 32 ELSE s[i]]

\* String.prototype.includes
Includes(s, t) ==
    \E i \in 0..(Len(s) - Len(t)) : SubSeq(s, i + 1, i + Len(t)) = t

\* the predicate of activities.filter in filterActivities
MatchesSearch(activity, text) ==
    \/ Includes(ToLowerCase(activity.handle), ToLowerCase(text))
    \/ \E i \in 1..Len(activity.tags) :
          Includes(ToLowerCase(activity.tags[i]), ToLowerCase(text))

\* the list filterActivities passes to setFilteredActivities
Filtered(activities, text) ==
    LET Test(activity) == MatchesSearch(activity, text) IN
    IF Trim(text) = <<>> THEN activities ELSE SelectSeq(activities, Test)

\* setActivities(activitiesData); setFilteredActivities(activitiesData), or
\* the catch block that logs
Loaded(state, result) ==
    IF result.kind = "return"
    THEN [state EXCEPT !.activities = result.value,
                       !.filteredActivities = result.value]
    ELSE state

\* loadActivities: on focus and on pull-to-refresh
loadActivities ==
    /\ Rendered
    /\ getActivities
    /\ listScreen' = Loaded(listScreen, lastResult')
    /\ UNCHANGED app

\* filterActivities: onChangeText of the search box
filterActivities(text) ==
    /\ Rendered
    /\ listScreen' = [listScreen EXCEPT
                         !.searchText = text,
                         !.filteredActivities = Filtered(listScreen.activities, text)]
    /\ UNCHANGED <<db, isInitialized, pc, schema, table, inflight,
                   lastOp, lastResult, lastArg, app>>

\* confirmDelete of a displayed activity: deleteActivity, and loadActivities
\* when it returned true
confirmDelete(activityId) ==
    /\ Rendered
    /\ \E engine \in EngineOutcomes :
          LET del == IF Ready THEN DeleteActivity(table, activityId, engine)
                     ELSE [result |-> NotInitialized, table |-> table]
              success == IF del.result.kind = "return" THEN del.result.value ELSE FALSE
          IN  /\ table' = del.table
              /\ IF success
                 THEN \E rows \in OrderBy(del.table), readEngine \in EngineOutcomes :
                         LET data == GetActivities(rows, readEngine) IN
                         /\ Record("getActivities", <<>>, data)
                         /\ listScreen' = Loaded(listScreen, data)
                 ELSE /\ Record("deleteActivity", activityId, del.result)
                      /\ UNCHANGED listScreen
    /\ UNCHANGED <<db, isInitialized, pc, schema, inflight, app>>

\* the ids of the activities the list displays
DisplayedIds ==
    { listScreen.filteredActivities[i].id :
         i \in 1..Len(listScreen.filteredActivities) }

\* what the user types into the search box
SearchTexts == {<<>>, <<Space>>, HandleG}

\* App and the store calls of its screens: the activity list screen, the
\* add screen and the detail screen of a displayed activity
NextApp ==
    \/ AppInitializeDatabase
    \/ AppOpenDone
    \/ \E k \in 1..3 : AppExecDone(k)
    \/ AppTestDatabase
    \/ loadActivities
    \/ \E id \in DisplayedIds : confirmDelete(id)
    \/ /\ Rendered
       /\ AddActivityScreenHandleSave(HandleG, Jan01, <<TagB>>)
       /\ NoScreen
    \/ /\ Rendered
       /\ \E id \in DisplayedIds : getActivityById(id)
       /\ NoScreen
    \/ /\ Rendered
       /\ \E id \in DisplayedIds :
             ActivityDetailScreenHandleSave(id, HandleH, Jan02, <<>>)
       /\ NoScreen

SpecApp == Init /\ [][NextApp]_vars

\* the activity list screen: typing in the search box, reloading and
\* deleting, while the add screen adds activities
NextList ==
    \/ AppInitializeDatabase
    \/ AppOpenDone
    \/ \E k \in 1..3 : AppExecDone(k)
    \/ AppTestDatabase
    \/ loadActivities
    \/ \E text \in SearchTexts : filterActivities(text)
    \/ \E id \in DisplayedIds : confirmDelete(id)
    \/ /\ Rendered
       /\ \E handle \in {HandleG, HandleH} :
             AddActivityScreenHandleSave(handle, Jan01, <<TagB>>)
       /\ NoScreen

SpecList == Init /\ [][NextList]_vars

\* activities the list screen may have loaded: handles and tags with letters
\* of both cases
SearchActivities ==
    { [id |-> GenerateId(1, <<107>>), handle |-> <<71, 104>>,
       committed_on |-> Jan01, tags |-> <<>>,
       created_at |-> ToISOString(1), updated_at |-> ToISOString(1)],
      [id |-> GenerateId(2, <<107>>), handle |-> HandleH,
       committed_on |-> Jan02, tags |-> <<<<65, 98>>>>,
       created_at |-> ToISOString(2), updated_at |-> ToISOString(2)],
      [id |-> GenerateId(3, <<107>>), handle |-> <<120>>,
       committed_on |-> Jan02, tags |-> <<TagB, <<71>>>>,
       created_at |-> ToISOString(3), updated_at |-> ToISOString(3)],
      [id |-> GenerateId(4, <<107>>), handle |-> <<66>>,
       committed_on |-> Jan01, tags |-> <<HandleG, TagA>>,
       created_at |-> ToISOString(4), updated_at |-> ToISOString(4)] }

\* the lists getActivities may have returned: the activities of a table, in
\* the order of its ORDER BY
LoadedLists == UNION { OrderBy(rows) : rows \in SUBSET SearchActivities }

\* texts typed into the search box: blank ones, letters of both cases, a
\* text with a leading space, a text no activity contains
SearchInputs ==
    {<<>>, <<Space, Space>>, HandleG, <<71>>, <<72>>, <<97, 66>>,
     <<Space, 103>>, <<103, 104>>, <<122>>}

\* the list screen has loaded a list; the store is READY and rendered
InitSearch ==
    /\ db = "open"
    /\ isInitialized = TRUE
    /\ pc = [p \in Callers |-> "idle"]
    /\ schema = { SchemaObjects[k] : k \in 1..3 }
    /\ table = {}
    /\ inflight = [c \in Callers |-> Idle]
    /\ lastOp = NoCall.op
    /\ lastResult = NoCall.result
    /\ lastArg = NoCall.arg
    /\ app = [pc |-> "done", isDbInitialized |-> TRUE, dbError |-> "null"]
    /\ \E loaded \in LoadedLists :
          listScreen = [activities |-> loaded, filteredActivities |-> loaded,
                        searchText |-> <<>>]

NextSearch == \E text \in SearchInputs : filterActivities(text)

SpecSearch == InitSearch /\ [][NextSearch]_vars

----------------------------------------------------------------------------
(* Vocabulary of the properties *)

DataOps ==
    {"addActivity", "getActivities", "getActivitiesByDateRange",
     "getActivityById", "updateActivity", "deleteActivity", "getAllTags"}

\* the store is READY: initialized, with an open handle
StoreReady == isInitialized /\ db # "null"

IsThrow(result, error) == result.kind = "throw" /\ result.error = error

StoredIds(tbl) == { r.id : r \in tbl }

\* the step is a call of op: every step records its operation in last
Completes(op) == last'.op = op

\* activity a is row r as a caller sees it
SameAsRow(a, r) ==
    /\ a.id = r.id
    /\ a.handle = r.handle
    /\ a.committed_on = r.committed_on
    /\ JSONstringify(a.tags) = r.tags
    /\ a.created_at = r.created_at
    /\ a.updated_at = r.updated_at

\* res lists the rows of rows, each once
ListsExactly(res, rows) ==
    /\ Len(res) = Cardinality(rows)
    /\ \A r \in rows : \E i \in 1..Len(res) : SameAsRow(res[i], r)

\* committed_on descending, and created_at descending within one committed_on
InListOrder(res) ==
    \A i, j \in 1..Len(res) :
        i < j =>
            \/ StrLess(res[j].committed_on, res[i].committed_on)
            \/ /\ res[i].committed_on = res[j].committed_on
               /\ StrLeq(res[j].created_at, res[i].created_at)

----------------------------------------------------------------------------
(* Properties *)

\* C1: while the store is not READY, a call of any of the seven data
\* operations throws the not-initialized error in the same step, returns
\* nothing, changes no row and leaves no call pending.
C1_NotReadyThrows ==
    [][~StoreReady =>
          /\ table' = table
          /\ \A op \in DataOps :
                Completes(op) =>
                    /\ IsThrow(last'.result, "Database not initialized")
                    /\ pc' = pc]_vars

\* a data operation was called while initialization was in flight
C1_Witness ==
    /\ pc[1] = "exec2"
    /\ last.op = "getActivities"
    /\ IsThrow(last.result, "Database not initialized")

\* C2: a getActivityById(id) that directly follows the successful
\* addActivity that returned id returns the handle, the committed_on and the
\* tag sequence that were passed to addActivity (order and repetitions kept),
\* with created_at equal to updated_at.
C2_AddThenGetById ==
    [][(/\ last.op = "addActivity"
        /\ last.result.kind = "return"
        /\ last'.op = "getActivityById"
        /\ last'.result.kind # "throw"
        /\ last'.arg = last.result.value.id)
       => /\ last'.result.kind = "return"
          /\ last'.result.value.id = last.result.value.id
          /\ last'.result.value.handle = last.arg.handle
          /\ last'.result.value.committed_on = last.arg.committed_on
          /\ last'.result.value.tags = last.arg.tags
          /\ last'.result.value.created_at = last'.result.value.updated_at]_vars

\* getActivityById returned a freshly added activity whose tags repeat
C2_Witness ==
    /\ last.op = "getActivityById"
    /\ last.result.kind = "return"
    /\ last.result.value.tags = <<TagC, TagB, TagC>>
    /\ last.result.value.created_at = last.result.value.updated_at

\* C3: getActivities returns the stored activities, each once, ordered by
\* committed_on descending and, within one committed_on, by created_at
\* descending.
C3_ListOrder ==
    (last.op = "getActivities" /\ last.result.kind = "return")
    => /\ ListsExactly(last.result.value, table)
       /\ InListOrder(last.result.value)

\* getActivities returned two activities of one day, created at different
\* times
C3_Witness ==
    /\ last.op = "getActivities"
    /\ last.result.kind = "return"
    /\ Len(last.result.value) = 2
    /\ last.result.value[1].committed_on = last.result.value[2].committed_on
    /\ last.result.value[1].created_at # last.result.value[2].created_at
    /\ last.result.value[1].updated_at # last.result.value[1].created_at

\* C4: an updateActivity(id, updates) that returns an activity returns, for
\* each of handle, committed_on and tags, the value in updates when updates
\* has the field and the value stored before the call when it has not; the
\* row of id holds the returned values after the call, and a getActivityById
\* (id) that directly follows returns them.
C4_PartialUpdate ==
    [][/\ (Completes("updateActivity") /\ last'.result.kind = "return")
          => LET id == last'.arg.id
                 updates == last'.arg.updates
                 res == last'.result.value
             IN  /\ res.id = id
                 /\ "handle" \in DOMAIN updates => res.handle = updates.handle
                 /\ "committed_on" \in DOMAIN updates
                       => res.committed_on = updates.committed_on
                 /\ "tags" \in DOMAIN updates => res.tags = updates.tags
                 /\ \E old \in table :
                       /\ old.id = id
                       /\ "handle" \notin DOMAIN updates => res.handle = old.handle
                       /\ "committed_on" \notin DOMAIN updates
                             => res.committed_on = old.committed_on
                       /\ "tags" \notin DOMAIN updates
                             => JSONstringify(res.tags) = old.tags
                 /\ \E new \in table' : SameAsRow(res, new)
       /\ (/\ last.op = "updateActivity"
           /\ last.result.kind = "return"
           /\ last'.op = "getActivityById"
           /\ last'.result.kind # "throw"
           /\ last'.arg = last.arg.id)
          => /\ last'.result.kind = "return"
             /\ last'.result.value = last.result.value]_vars

\* an update of the tags alone returned the stored handle and committed_on
C4_Witness ==
    /\ last.op = "updateActivity"
    /\ last.result.kind = "return"
    /\ DOMAIN last.arg.updates = {"tags"}
    /\ last.result.value.handle = HandleG
    /\ last.result.value.committed_on = Jan02
    /\ last.result.value.tags = <<>>

\* C5: an updateActivity(id, updates) whose id is not stored returns null,
\* never an activity; it throws only what the engine or ensureInitialized
\* throws; it creates no row and changes no row.
C5_UpdateNotFound ==
    [][Completes("updateActivity") =>
          /\ last'.result.kind = "null"
                => /\ last'.arg.id \notin StoredIds(table)
                   /\ table' = table
          /\ last'.result.kind = "return"
                => /\ last'.arg.id \in StoredIds(table)
                   /\ StoredIds(table') = StoredIds(table)
          /\ last'.result.kind = "throw"
                => /\ last'.result.error \in {"Database not initialized",
                                              "StorageFailure", "SyntaxError"}
                   /\ table' = table
          /\ \A id \in Ids \ StoredIds(table), updates \in PartialActivities,
                now \in Times :
                UpdateActivity(table, id, updates, now, "ok", "ok").result.kind
                    = "null"]_vars

\* updateActivity returned null while other rows were stored
C5_Witness ==
    /\ last.op = "updateActivity"
    /\ last.result.kind = "null"
    /\ DOMAIN last.arg.updates = Fields
    /\ table # {}

\* C6: deleteActivity(id) returns true exactly when a row with that id was
\* stored, and then that row and no other is gone: a getActivityById(id)
\* that directly follows returns null and a getActivities that directly
\* follows does not list it; for an id that is not stored it returns false
\* and the table is unchanged.
C6_Delete ==
    [][/\ (Completes("deleteActivity") /\ last'.result.kind = "return")
          => /\ last'.result.value = (last'.arg \in StoredIds(table))
             /\ table' = { r \in table : r.id # last'.arg }
             /\ last'.arg \notin StoredIds(table')
       /\ (Completes("deleteActivity") /\ last'.result.kind = "throw")
          => /\ last'.result.error \in {"Database not initialized",
                                        "StorageFailure"}
             /\ table' = table
       /\ (/\ last.op = "deleteActivity"
           /\ last.result.kind = "return"
           /\ last'.op = "getActivityById"
           /\ last'.result.kind # "throw"
           /\ last'.arg = last.arg)
          => last'.result.kind = "null"
       /\ (/\ last.op = "deleteActivity"
           /\ last.result.kind = "return"
           /\ last'.op = "getActivities"
           /\ last'.result.kind = "return")
          => \A i \in 1..Len(last'.result.value) :
                last'.result.value[i].id # last.arg]_vars

\* deleteActivity returned true and another row is still stored
C6_Witness ==
    /\ last.op = "deleteActivity"
    /\ last.result.kind = "return"
    /\ last.result.value = TRUE
    /\ Cardinality(table) = 1

\* a row whose tags column does not hold a JSON array
UndecodableRow ==
    [id |-> <<49, 107>>, handle |-> HandleH, committed_on |-> Jan01,
     tags |-> <<LBracket, Quote, 97>>,
     created_at |-> ToISOString(1), updated_at |-> ToISOString(1)]

\* C7: on a READY store getActivityById(id) returns the stored activity of
\* id when there is one and null when there is none, and it throws in neither
\* case unless the engine rejects the SELECT or the tags do not decode; then
\* it throws and does not return null.
C7_GetById ==
    /\ last.op = "getActivityById"
          => /\ last.result.kind = "return"
                   => \E r \in table :
                         r.id = last.arg /\ SameAsRow(last.result.value, r)
             /\ last.result.kind = "null" => last.arg \notin StoredIds(table)
             /\ last.result.kind = "throw"
                   => last.result.error \in {"Database not initialized",
                                             "StorageFailure", "SyntaxError"}
    /\ \A id \in Ids :
          /\ GetActivityById(table, id, "ok").kind
                = (IF id \in StoredIds(table) THEN "return" ELSE "null")
          /\ GetActivityById(table, id, "error").kind = "throw"
    /\ GetActivityById(table \cup {UndecodableRow}, UndecodableRow.id, "ok").kind
          \in (IF UndecodableRow.id \in StoredIds(table)
               THEN {"return", "throw"} ELSE {"throw"})

\* getActivityById returned null for an id that is not stored, with another
\* row stored
C7_Witness ==
    /\ last.op = "getActivityById"
    /\ last.result.kind = "null"
    /\ table # {}

\* C8: getActivitiesByDateRange(startDate, endDate) returns exactly the
\* stored activities with startDate <= committed_on <= endDate, both bounds
\* included and compared as strings, in the order of getActivities; when
\* startDate > endDate or no stored activity lies in the range it returns the
\* empty sequence and does not throw.
C8_DateRange ==
    /\ (last.op = "getActivitiesByDateRange" /\ last.result.kind = "return")
          => LET startDate == last.arg[1]
                 endDate == last.arg[2]
                 inRange == { r \in table :
                                /\ StrLeq(startDate, r.committed_on)
                                /\ StrLeq(r.committed_on, endDate) }
             IN  /\ ListsExactly(last.result.value, inRange)
                 /\ InListOrder(last.result.value)
                 /\ (StrLess(endDate, startDate) \/ inRange = {})
                       => last.result.value = <<>>
    /\ \A range \in DateRanges :
          LET selected == { r \in table : InDateRange(r, range[1], range[2]) } IN
          (StrLess(range[2], range[1])
             \/ \A r \in table : ~(/\ StrLeq(range[1], r.committed_on)
                                   /\ StrLeq(r.committed_on, range[2])))
          => /\ selected = {}
             /\ GetActivitiesByDateRange(<<>>, "ok") = Return(<<>>)

\* a range of one day returned the one activity of that day and left out the
\* activity of the next day
C8_Witness ==
    /\ last.op = "getActivitiesByDateRange"
    /\ last.result.kind = "return"
    /\ last.arg[1] = last.arg[2]
    /\ Len(last.result.value) = 1
    /\ Cardinality(table) = 2

\* an inverted range returned the empty sequence although an activity is
\* stored on its start day
C8_WitnessInverted ==
    /\ last.op = "getActivitiesByDateRange"
    /\ last.result.kind = "return"
    /\ StrLess(last.arg[2], last.arg[1])
    /\ last.result.value = <<>>
    /\ \E r \in table : r.committed_on = last.arg[1]

\* the tag sequences a caller stores
TagLists ==
    { a.tags : a \in NewActivities }
        \cup { u.tags : u \in { v \in PartialActivities : "tags" \in DOMAIN v } }

\* the tags that occur in at least one row of tbl
TagsOf(tbl) ==
    { t \in UNION { { tags[i] : i \in 1..Len(tags) } : tags \in TagLists } :
        \E r \in tbl, tags \in TagLists :
            /\ r.tags = JSONstringify(tags)
            /\ \E i \in 1..Len(tags) : tags[i] = t }

\* C9: getAllTags returns every tag that occurs in a stored activity, once,
\* in ascending lexicographic order, and no tag that occurs in none: no tag
\* of a deleted activity and none that an update replaced.
C9_DistinctTags ==
    (last.op = "getAllTags" /\ last.result.kind = "return")
    => LET res == last.result.value IN
       /\ { res[i] : i \in 1..Len(res) } = TagsOf(table)
       /\ \A i, j \in 1..Len(res) : i < j => StrLess(res[i], res[j])

\* getAllTags returned a, b, c for the stored tags [b, a] and [c, b, c]
C9_Witness ==
    /\ last.op = "getAllTags"
    /\ last.result.kind = "return"
    /\ last.result.value = <<TagA, TagB, TagC>>
    /\ Cardinality(table) = 2

\* C10: no two stored activities have the same id, and an id is never
\* reassigned: an addActivity whose generated id is already stored throws,
\* and neither replaces nor alters the stored row; an addActivity that
\* returns adds one row under an id that was not stored.
C10_UniqueIds ==
    [][/\ \A r1, r2 \in table' : r1.id = r2.id => r1 = r2
       /\ Completes("addActivity")
             => /\ table \subseteq table'
                /\ last'.result.kind = "throw" => table' = table
                /\ last'.result.kind = "return"
                      => /\ last'.result.value.id \notin StoredIds(table)
                         /\ StoredIds(table')
                               = StoredIds(table) \cup {last'.result.value.id}]_vars

\* addActivity generated an id that is stored and failed on the PRIMARY KEY
C10_Witness ==
    /\ last.op = "addActivity"
    /\ IsThrow(last.result, "SQLITE_CONSTRAINT")
    /\ table # {}

\* C11: in every reachable state every stored activity has
\* created_at <= updated_at, whatever clock readings addActivity and
\* updateActivity took.
C11_CreatedBeforeUpdated ==
    \A r \in table : StrLeq(r.created_at, r.updated_at)

\* C12: initialize() on a READY store returns at once and changes nothing:
\* the handle is not reopened, no schema statement is issued, the store stays
\* READY and every stored row is as it was.
C12_InitializeWhenReady ==
    [][(StoreReady /\ Completes("initialize"))
          => /\ last'.result.kind = "return"
             /\ UNCHANGED <<db, isInitialized, pc, schema, table, inflight>>
             /\ StoreReady']_vars

\* initialize() returned early on a READY store that holds a row
C12_Witness ==
    /\ last.op = "initialize"
    /\ last.result.kind = "return"
    /\ last.result.value = "already initialized"
    /\ table # {}

\* C13: when the open or a schema statement of initialize() fails, the call
\* throws and the store is left uninitialized, with no handle, not READY and
\* no initialization pending; an initialize() on that store is accepted and
\* starts over, and a call that returns leaves the store READY with the whole
\* schema.
C13_InitializeFailure ==
    [][Completes("initialize")
          => /\ last'.result.kind = "throw"
                   => /\ \E p \in Tasks : pc[p] # "idle"
                      /\ db' = "null"
                      /\ ~isInitialized'
                      /\ \A p \in Tasks : pc'[p] = "idle"
                      /\ table' = table
             /\ (~StoreReady /\ \A p \in Tasks : pc[p] = "idle")
                   => /\ last'.result.kind = "pending"
                      /\ \E p \in Tasks : pc'[p] = "open"
             /\ (last'.result.kind = "return" /\ ~StoreReady)
                   => /\ StoreReady'
                      /\ schema' = { SchemaObjects[k] : k \in 1..3 }
                      /\ \A p \in Tasks : pc'[p] = "idle"]_vars

\* initialize() threw on its second schema statement: the table exists, the
\* indexes do not, and the store has no handle
C13_Witness ==
    /\ last.op = "initialize"
    /\ IsThrow(last.result, "StorageFailure")
    /\ schema = {"activities"}
    /\ db = "null"
    /\ ~isInitialized

\* C17: no step changes the id or the created_at of a stored row: as long as
\* an id is stored its row keeps the created_at addActivity gave it, and the
\* activity updateActivity returns carries that id and that created_at.
C17_IdAndCreatedAtKept ==
    [][/\ \A r \in table, r2 \in table' :
             r2.id = r.id => r2.created_at = r.created_at
       /\ (Completes("updateActivity") /\ last'.result.kind = "return")
             => /\ StoredIds(table') = StoredIds(table)
                /\ last'.result.value.id = last'.arg.id
                /\ \E r \in table :
                      /\ r.id = last'.arg.id
                      /\ r.created_at = last'.result.value.created_at]_vars

\* updateActivity returned an activity whose updated_at is not its created_at
C17_Witness ==
    /\ last.op = "updateActivity"
    /\ last.result.kind = "return"
    /\ last.result.value.updated_at # last.result.value.created_at
    /\ \E r \in table : /\ r.id = last.arg.id
                        /\ r.created_at = last.result.value.created_at
                        /\ r.updated_at = last.result.value.updated_at

\* C18: after every updateActivity that returns an activity, the stored
\* updated_at of that activity is strictly greater than its created_at.
C18_UpdatedAfterCreated ==
    [][(Completes("updateActivity") /\ last'.result.kind = "return")
          => \A r \in table' :
                r.id = last'.arg.id => StrLess(r.created_at, r.updated_at)]_vars

\* C20: when the engine rejects the statement of addActivity, updateActivity
\* or deleteActivity, the call throws, returns no value, and the table is as
\* it was before the call.
C20_WriteFailure ==
    /\ \A activity \in NewActivities, ms \in Times, suffix \in RandomSuffixes :
          /\ LET r == AddActivity(table, activity, ms, ms, suffix, "error") IN
             r.result.kind = "throw" /\ r.table = table
          /\ GenerateId(ms, suffix) \in StoredIds(table)
                => LET r == AddActivity(table, activity, ms, ms, suffix, "ok") IN
                   r.result.kind = "throw" /\ r.table = table
    /\ \A id \in Ids, updates \in PartialActivities, now \in Times :
          \A engines \in StatementOutcomes \ {<<"ok", "ok">>} :
             (engines[1] = "error" \/ id \in StoredIds(table))
             => LET r == UpdateActivity(table, id, updates, now,
                                        engines[1], engines[2])
                IN  r.result.kind = "throw" /\ r.table = table
    /\ \A id \in Ids :
          LET r == DeleteActivity(table, id, "error") IN
          r.result.kind = "throw" /\ r.table = table
    /\ (/\ last.op \in {"addActivity", "updateActivity", "deleteActivity"}
        /\ last.result.kind = "throw")
          => last.result.error \in {"Database not initialized", "StorageFailure",
                                    "SQLITE_CONSTRAINT", "SyntaxError"}

\* updateActivity threw the engine's failure while rows were stored
C20_Witness ==
    /\ last.op = "updateActivity"
    /\ IsThrow(last.result, "StorageFailure")
    /\ table # {}

\* C14: at most one initialization is in flight at any time: an initialize()
\* made while another has not completed is rejected or joins it, so the
\* store is not opened by two calls and no two calls run createTables at the
\* same time.
C14_OneInitializationInFlight ==
    \A p, q \in Callers : (pc[p] # "idle" /\ pc[q] # "idle") => p = q

\* both calls have opened the store and both are inside createTables
C14_Witness ==
    /\ pc[1] \in {"exec1", "exec2", "exec3"}
    /\ pc[2] \in {"exec1", "exec2", "exec3"}

\* C15: whenever updateActivity returns an activity, a row with that id and
\* exactly the returned field values is in the table at the moment it
\* returns, also when a deleteActivity or another updateActivity of the id
\* ran between its read and its write.
C15_ReturnedActivityIsStored ==
    (last.op = "updateActivity" /\ last.result.kind = "return")
    => \E r \in table : SameAsRow(last.result.value, r)

\* updateActivity has just returned an activity of an id that is not stored
C15_Witness ==
    /\ last.op = "updateActivity"
    /\ last.result.kind = "return"
    /\ last.result.value.id \notin StoredIds(table)

\* C16: updateActivity is not atomic: its UPDATE stores the merge of the
\* activity it read before its await, whatever the row holds when the UPDATE
\* runs, so of two calls on one id whose reads and writes interleave, each
\* supplying another field, both return an activity and the row keeps the
\* prior value of one of the two fields: one update is lost.
C16_WriteOfStaleRead ==
    [][\A c \in Callers :
          (inflight[c].phase = "write" /\ inflight'[c].phase = "returned")
          => \A r \in table' :
                r.id = inflight[c].id
                => LET merged == Spread(inflight[c].existing, inflight[c].updates)
                   IN  /\ r.handle = merged.handle
                       /\ r.committed_on = merged.committed_on
                       /\ r.tags = JSONstringify(merged.tags)
                       /\ r.created_at = merged.created_at]_vars

\* both calls returned an activity, one supplied the handle and the other
\* the tags, and the row holds the new tags with the handle it had before
C16_Witness ==
    /\ inflight[1].phase = "returned"
    /\ inflight[2].phase = "returned"
    /\ inflight[1].id = inflight[2].id
    /\ DOMAIN inflight[1].updates = {"handle"}
    /\ DOMAIN inflight[2].updates = {"tags"}
    /\ \E r \in table :
          /\ r.id = inflight[1].id
          /\ r.handle = HandleH
          /\ inflight[1].updates.handle = HandleG
          /\ r.tags = JSONstringify(inflight[2].updates.tags)

\* the rows of tbl whose tags text is not the JSON text of any array
Undecodable(tbl) ==
    { r \in tbl : r.tags = <<>> \/ r.tags[Len(r.tags)] # RBracket }

\* C19: when the stored tags of a row cannot be decoded, every read that
\* returns that row throws: getActivityById of it, getActivities,
\* getActivitiesByDateRange over a range that holds it, and getAllTags; no
\* read returns the activity, with empty tags or any other.
C19_UndecodableTags ==
    LET bad == Undecodable(table)
        res == last.result.value
    IN  last.result.kind \in {"return", "null"}
        => /\ last.op = "getActivityById" => last.arg \notin StoredIds(bad)
           /\ last.op = "getActivities" => bad = {}
           /\ last.op = "getActivitiesByDateRange"
                 => \A r \in bad : ~(/\ StrLeq(last.arg[1], r.committed_on)
                                     /\ StrLeq(r.committed_on, last.arg[2]))
           /\ last.op = "getAllTags" => bad = {}
           /\ last.op \in {"getActivities", "getActivitiesByDateRange"}
                 => \A i \in 1..Len(res) : res[i].id \notin StoredIds(bad)

\* getActivities threw on a table that holds a row with well-formed tags and
\* a row with undecodable tags
C19_Witness ==
    /\ last.op = "getActivities"
    /\ IsThrow(last.result, "SyntaxError")
    /\ Undecodable(table) # {}
    /\ Undecodable(table) # table

\* a range without the undecodable rows was read and its activity returned,
\* while the table holds an undecodable row
C19_WitnessRange ==
    /\ last.op = "getActivitiesByDateRange"
    /\ last.result.kind = "return"
    /\ Len(last.result.value) = 1
    /\ Undecodable(table) # {}

\* C28: in every reachable state, also with two initialize() calls
\* overlapping in time, the initialized flag is true only if the storage
\* handle is not null.
C28_InitializedHasHandle == isInitialized => db # "null"

\* a call marked the store initialized after the other call's reset of the
\* handle, and that other call is still opening the store
C28_Witness ==
    /\ isInitialized
    /\ db = "null"
    /\ lastOp = "initialize"
    /\ lastResult = Return("initialized")
    /\ \E p \in Callers : pc[p] = "open"

\* C29: READY is absorbing: once an initialize() call has completed
\* successfully the store is READY in every later state; no data operation,
\* no further initialize() call and no completion or failure of an
\* initialize() call started before READY was reached returns it to the
\* uninitialized state.
C29_ReadyIsAbsorbing == [][StoreReady => StoreReady']_vars

\* C30: every mutation touches at most the row it targets: an addActivity
\* that returns keeps every stored row and adds exactly one; updateActivity
\* and deleteActivity of an id leave every row of another id as it was and
\* add no row of another id; getActivities, getActivitiesByDateRange,
\* getActivityById and getAllTags change no row.
C30_Frame ==
    [][/\ Completes("addActivity")
          => IF lastResult'.kind = "return"
             THEN /\ table \subseteq table'
                  /\ Cardinality(table') = Cardinality(table) + 1
             ELSE table' = table
       /\ Completes("updateActivity")
          => IF lastResult'.kind = "throw" THEN table' = table
             ELSE { r \in table' : r.id # lastArg'.id }
                     = { r \in table : r.id # lastArg'.id }
       /\ Completes("deleteActivity")
          => IF lastResult'.kind = "throw" THEN table' = table
             ELSE { r \in table' : r.id # lastArg' }
                     = { r \in table : r.id # lastArg' }
       /\ (\/ Completes("getActivities")
           \/ Completes("getActivitiesByDateRange")
           \/ Completes("getActivityById")
           \/ Completes("getAllTags"))
          => table' = table]_vars

\* a deleteActivity removed its row and the row of another id is still
\* stored
C30_Witness ==
    /\ last.op = "deleteActivity"
    /\ last.result = Return(TRUE)
    /\ table # {}
    /\ last.arg \notin StoredIds(table)

C22_NoPartialSchema ==
    (lastOp = "initialize" /\ lastResult.kind = "throw")
    => \/ schema = {}
       \/ schema = { SchemaObjects[k] : k \in 1..3 }

\* initialize() threw on the failure of its last statement: the table and
\* the index on committed_on exist, the index on handle does not
C22_Witness ==
    /\ lastOp = "initialize"
    /\ IsThrow(lastResult, "StorageFailure")
    /\ ~isInitialized
    /\ schema = {"activities", "idx_activities_committed_on"}

\* C23: in every reachable state every stored activity has a non-empty
\* handle: neither addActivity nor updateActivity persists an activity whose
\* handle is the empty string, called by the screens or directly.
C23_HandleNonEmpty == \A r \in table : r.handle # <<>>

\* updateActivity, called with handle: '', returned an activity with the
\* empty handle and its row is stored with the empty handle
C23_Witness ==
    /\ lastOp = "updateActivity"
    /\ lastResult.kind = "return"
    /\ lastResult.value.handle = <<>>
    /\ \E r \in table : r.id = lastResult.value.id /\ r.handle = <<>>

\* C25: the application issues no data operation of the store before
\* initialize() has completed successfully: a data operation is called only
\* while App renders the navigation tree, App renders it only when the store
\* is READY, no data operation throws "Database not initialized", and once
\* initialize() has failed App stays on the error view and no screen acts.
C25_DataOpsAfterInitialize ==
    [][/\ lastOp' \in DataOps
          => /\ Rendered'
             /\ ~IsThrow(lastResult', "Database not initialized")
       /\ Rendered' => StoreReady'
       /\ app.dbError # "null"
          => /\ app' = app
             /\ listScreen' = listScreen
             /\ lastOp' \notin DataOps]_vars

\* the navigation tree is rendered and updateActivity, called by the detail
\* screen, returned an activity
C25_Witness ==
    /\ Rendered
    /\ StoreReady
    /\ lastOp = "updateActivity"
    /\ lastResult.kind = "return"

\* initialize() failed at its last statement: App shows the error view
C25_WitnessErrorView ==
    /\ app.dbError = "StorageFailure"
    /\ ~app.isDbInitialized
    /\ lastOp = "initialize"
    /\ schema # {}

\* the text is empty or white space only
Blank(text) == \A i \in 1..Len(text) : text[i] = Space

FoldCase(c) == IF c \in 97..122 THEN c - 32 ELSE c

\* s contains t as a substring, letters compared without their case
ContainsIgnoringCase(s, t) ==
    \E i \in 0..(Len(s) - Len(t)) :
       \A k \in 1..Len(t) : FoldCase(s[i + k]) = FoldCase(t[k])

\* the handle of the activity, or one of its tags, contains the text
HandleOrTagContains(activity, text) ==
    \/ ContainsIgnoringCase(activity.handle, text)
    \/ \E i \in 1..Len(activity.tags) :
          ContainsIgnoringCase(activity.tags[i], text)

\* C27: on the activity list screen, after any interleaving of typing in the
\* search box, reloading and deleting, the displayed list is the filter of
\* the loaded activities by the search text: for a non-blank text every
\* displayed activity matches it and every loaded activity that matches it
\* is displayed, and for a blank text all loaded activities are displayed.
C27_DisplayedIsFiltered ==
    LET text == listScreen.searchText
        loaded == listScreen.activities
        shown == listScreen.filteredActivities
    IN  IF Blank(text) THEN shown = loaded
        ELSE /\ \A i \in 1..Len(shown) : HandleOrTagContains(shown[i], text)
             /\ \A j \in 1..Len(loaded) :
                   HandleOrTagContains(loaded[j], text)
                   => \E i \in 1..Len(shown) : shown[i] = loaded[j]

\* the search text is "g", a reload has just returned, and the list displays
\* an activity whose handle and tags do not contain "g"
C27_Witness ==
    /\ listScreen.searchText = HandleG
    /\ lastOp = "getActivities"
    /\ \E i \in 1..Len(listScreen.filteredActivities) :
          ~HandleOrTagContains(listScreen.filteredActivities[i], HandleG)

\* C26: search on the activity list screen: for a non-blank search text the
\* displayed list is exactly the loaded activities whose handle, or at least
\* one tag, contains the text as a case-insensitive substring, in the order
\* of the loaded list; for a blank text it is all loaded activities.
C26_Search ==
    LET text == listScreen.searchText
        loaded == listScreen.activities
        shown == listScreen.filteredActivities
    IN  /\ Blank(text) => shown = loaded
        /\ ~Blank(text)
           => /\ Len(shown) <= Len(loaded)
              /\ \E idx \in [1..Len(shown) -> 1..Len(loaded)] :
                    /\ \A i, k \in 1..Len(shown) : i < k => idx[i] < idx[k]
                    /\ \A i \in 1..Len(shown) : shown[i] = loaded[idx[i]]
                    /\ \A j \in 1..Len(loaded) :
                          HandleOrTagContains(loaded[j], text)
                          <=> \E i \in 1..Len(shown) : idx[i] = j

\* the text "aB" was typed over four loaded activities, and the list
\* displays the one activity with the tag "Ab"
C26_Witness ==
    /\ listScreen.searchText = <<97, 66>>
    /\ Len(listScreen.activities) = 4
    /\ Len(listScreen.filteredActivities) = 1
    /\ listScreen.filteredActivities[1].tags = <<<<65, 98>>>>

\* C21: whenever the store is READY the activities table and both of its
\* indexes, on committed_on and on handle, exist, on every path of
\* initialize(), the fallback for the legacy driver included.
C21_ReadyHasSchema ==
    StoreReady => schema = { SchemaObjects[k] : k \in 1..3 }

\* the store was initialized over the legacy driver and getActivities
\* returned a stored activity, while no index exists
C21_Witness ==
    /\ StoreReady
    /\ db = "legacy"
    /\ schema = {"activities"}
    /\ lastOp = "getActivities"
    /\ lastResult.kind = "return"
    /\ Len(lastResult.value) > 0

====
